---- MODULE Spec2Model ----
(***************************************************************************)
(* Model of the dependency tracker (depstracker.py), of the OS X           *)
(* relocator (osxrelocator.py) and of Version (version.py).                *)
(*                                                                         *)
(* Python strings are sequences of one-character strings, so that the      *)
(* string operations of the source (replace, split, strip, startswith,     *)
(* dirname) are computed rather than assumed.                              *)
(***************************************************************************)
EXTENDS Integers, Sequences, FiniteSets, TLC

(***************************************************************************)
(* Bounds of the model.                                                    *)
(***************************************************************************)
MaxLibs == 2
MaxRpaths == 2
MaxRuns == 2
MaxFaults == 1
MaxPaths == 2
MaxCalls == 2
MaxDirs == 2
MaxPart == 2

(***************************************************************************)
(* String literals of the source.                                          *)
(***************************************************************************)
TAB == "\t"
SPACE == " "
SLASH == "/"

AT_RPATH ==
    <<"@", "r", "p", "a", "t", "h">>
USR_LIB ==
    <<"/", "u", "s", "r", "/", "l", "i", "b">>
SYSTEM_LIBRARY ==
    <<"/", "S", "y", "s", "t", "e", "m", "/", "L", "i", "b", "r", "a", "r", "y">>
DOT ==
    <<".">>
LOADER_PATH ==
    <<"@", "l", "o", "a", "d", "e", "r", "_", "p", "a", "t", "h">>
EXECUTABLE_PATH ==
    <<"@", "e", "x", "e", "c", "u", "t", "a", "b", "l", "e", "_", "p", "a", "t", "h">>
CMD_LC_RPATH ==
    <<"c", "m", "d", " ", "L", "C", "_", "R", "P", "A", "T", "H">>
PATH_WORD ==
    <<"p", "a", "t", "h">>

(* the list ['.', '@loader_path', '@executable_path'] of change_libs_path *)
ADDED_RPATHS == <<DOT, LOADER_PATH, EXECUTABLE_PATH>>

(***************************************************************************)
(* Python string operations.                                               *)
(***************************************************************************)
SeqsUpTo(S, n) == UNION {[1..k -> S] : k \in 0..n}

Range(s) == {s[i] : i \in 1..Len(s)}

StartsWith(s, p) == Len(p) <= Len(s) /\ SubSeq(s, 1, Len(p)) = p

EndsWith(s, p) ==
    Len(p) <= Len(s) /\ SubSeq(s, Len(s) - Len(p) + 1, Len(s)) = p

(* sub in s *)
Contains(s, sub) ==
    \E i \in 1..(Len(s) - Len(sub) + 1) : SubSeq(s, i, i + Len(sub) - 1) = sub

(* str.replace(old, new): every non-overlapping occurrence, left to right; *)
(* an empty old matches before every character and at the end.             *)
RECURSIVE ReplaceNonEmpty(_, _, _)
ReplaceNonEmpty(s, old, new) ==
    IF Len(s) < Len(old) THEN s
    ELSE IF SubSeq(s, 1, Len(old)) = old
         THEN new \o ReplaceNonEmpty(SubSeq(s, Len(old) + 1, Len(s)), old, new)
         ELSE <<s[1]>> \o ReplaceNonEmpty(Tail(s), old, new)

RECURSIVE ReplaceEmpty(_, _)
ReplaceEmpty(s, new) ==
    IF s = <<>> THEN new
    ELSE new \o <<s[1]>> \o ReplaceEmpty(Tail(s), new)

Replace(s, old, new) ==
    IF old = <<>> THEN ReplaceEmpty(s, new) ELSE ReplaceNonEmpty(s, old, new)

(* str.split(sep)[n - 1] for a one-character separator: the n-th field,   *)
(* empty fields counted                                                    *)
RECURSIVE Field(_, _, _)
Field(s, sep, n) ==
    LET k == IF \E i \in 1..Len(s) : s[i] = sep
             THEN CHOOSE i \in 1..Len(s) :
                      s[i] = sep /\ \A j \in 1..(i - 1) : s[j] # sep
             ELSE Len(s) + 1
    IN  IF n = 1 THEN SubSeq(s, 1, k - 1)
        ELSE Field(SubSeq(s, k + 1, Len(s)), sep, n - 1)

IsWhite(c) == c \in {SPACE, TAB, "\n"}

RECURSIVE LStrip(_)
LStrip(s) == IF s # <<>> /\ IsWhite(s[1]) THEN LStrip(Tail(s)) ELSE s

RECURSIVE RStrip(_)
RStrip(s) ==
    IF s # <<>> /\ IsWhite(s[Len(s)]) THEN RStrip(SubSeq(s, 1, Len(s) - 1)) ELSE s

Strip(s) == RStrip(LStrip(s))

RECURSIVE RStripSlash(_)
RStripSlash(s) ==
    IF s # <<>> /\ s[Len(s)] = SLASH
    THEN RStripSlash(SubSeq(s, 1, Len(s) - 1)) ELSE s

(* p.rfind('/') + 1 *)
LastSlash(p) ==
    IF \E i \in 1..Len(p) : p[i] = SLASH
    THEN CHOOSE i \in 1..Len(p) :
             p[i] = SLASH /\ \A j \in (i + 1)..Len(p) : p[j] # SLASH
    ELSE 0

(* os.path.dirname *)
Dirname(p) ==
    LET head == SubSeq(p, 1, LastSlash(p))
    IN  IF head # <<>> /\ \E i \in 1..Len(head) : head[i] # SLASH
        THEN RStripSlash(head) ELSE head

(* os.path.basename *)
Basename(p) == SubSeq(p, LastSlash(p) + 1, Len(p))

(* the first occurrence of x removed from the sequence s *)
RemoveFirst(s, x) ==
    IF x \in Range(s)
    THEN LET k == CHOOSE i \in 1..Len(s) :
                      s[i] = x /\ \A j \in 1..(i - 1) : s[j] # x
         IN  SubSeq(s, 1, k - 1) \o SubSeq(s, k + 1, Len(s))
    ELSE s

(***************************************************************************)
(* Text of the external tools, as the source parses it.                    *)
(***************************************************************************)
VERSION_INFO ==
    <<" ", "(", "c", "o", "m", "p", "a", "t", "i", "b", "i", "l", "i", "t", "y", " ", "v", "e", "r", "s", "i", "o", "n", " ", "1", ".", "0", ".", "0", ",", " ", "c", "u", "r", "r", "e", "n", "t", " ", "v", "e", "r", "s", "i", "o", "n", " ", "1", ".", "0", ".", "0", ")">>
LOAD_COMMAND_LINE ==
    <<"L", "o", "a", "d", " ", "c", "o", "m", "m", "a", "n", "d", " ", "1", "2">>
LC_RPATH_CMD_LINE ==
    <<" ", " ", " ", " ", " ", " ", " ", " ", " ", " ", "c", "m", "d", " ", "L", "C", "_", "R", "P", "A", "T", "H">>
LC_RPATH_SIZE_LINE ==
    <<" ", " ", " ", " ", " ", " ", "c", "m", "d", "s", "i", "z", "e", " ", "3", "2">>
LC_RPATH_PATH_LEAD ==
    <<" ", " ", " ", " ", " ", " ", " ", " ", " ", "p", "a", "t", "h", " ">>
LC_RPATH_PATH_TAIL ==
    <<" ", "(", "o", "f", "f", "s", "e", "t", " ", "1", "2", ")">>
DLL_NAME_LEAD ==
    <<TAB, "D", "L", "L", " ", "N", "a", "m", "e", ":", " ">>
OBJDUMP_FORMAT ==
    <<":", " ", " ", " ", " ", " ", "f", "i", "l", "e", " ", "f", "o", "r", "m", "a", "t", " ", "p", "e", "i", "-", "x", "8", "6", "-", "6", "4">>
OBJDUMP_TABLE ==
    <<TAB, "v", "m", "a", ":", " ", " ", "H", "i", "n", "t", "/", "O", "r", "d", " ", "M", "e", "m", "b", "e", "r", "-", "N", "a", "m", "e", " ", "B", "o", "u", "n", "d", "-", "T", "o">>

(* lines printed by `otool -L object_file`: the file name and a colon,     *)
(* then one line per linked-library record                                 *)
OtoolLOutput(object_file, records) ==
    <<object_file \o <<":">> >> \o
    [i \in 1..Len(records) |-> <<TAB>> \o records[i] \o VERSION_INFO]

(* lines printed by `otool -l object_file` for the LC_RPATH load commands *)
RECURSIVE OtoolLoadCommands(_)
OtoolLoadCommands(records) ==
    IF records = <<>> THEN <<>>
    ELSE <<LOAD_COMMAND_LINE, LC_RPATH_CMD_LINE, LC_RPATH_SIZE_LINE,
           LC_RPATH_PATH_LEAD \o Head(records) \o LC_RPATH_PATH_TAIL>>
         \o OtoolLoadCommands(Tail(records))

(* lines printed by `objdump -xw path` for the imported DLLs *)
RECURSIVE ObjdumpImports(_)
ObjdumpImports(names) ==
    IF names = <<>> THEN <<>>
    ELSE <<DLL_NAME_LEAD \o Head(names), OBJDUMP_TABLE>>
         \o ObjdumpImports(Tail(names))

ObjdumpOutput(path, names) ==
    << <<>>, path \o OBJDUMP_FORMAT >> \o ObjdumpImports(names)

(***************************************************************************)
(* Files of the relocator: linked-library and run-path records.            *)
(***************************************************************************)
LibCore ==
    <<"/", "o", "p", "t", "/", "f", "w", "/", "l", "i", "b", "/", "l", "i", "b", "c", "o", "r", "e", ".", "e", "x", "t">>
LibSystem ==
    <<"/", "u", "s", "r", "/", "l", "i", "b", "/", "l", "i", "b", "s", "y", "s", "t", "e", "m", ".", "e", "x", "t">>
LibFramework ==
    <<"/", "S", "y", "s", "t", "e", "m", "/", "L", "i", "b", "r", "a", "r", "y", "/", "F", ".", "e", "x", "t">>
LibBare ==
    <<"l", "i", "b", "z", ".", "e", "x", "t">>
LibTwice ==
    <<"/", "a", "/", "a", ".", "e", "x", "t">>
RpOld ==
    <<"/", "o", "l", "d", "/", "p", "a", "t", "h">>
RpSpace ==
    <<"/", "m", "y", " ", "d", "i", "r">>

LibRecords == {LibCore, LibSystem, LibFramework, LibBare, LibTwice}
RpathRecords == {RpOld, RpSpace, DOT}

(* the name change_libs_path is given for the object file *)
OBJECT_FILE ==
    <<"o", "b", "j">>

(***************************************************************************)
(* The install tree of the dependency tracker: the prefix /p with three    *)
(* binaries in /p/bin, a symbolic link to one of them, and a name that     *)
(* does not exist.  The process runs in /cwd.                              *)
(***************************************************************************)
PREFIX ==
    <<"/", "p">>
BIN ==
    <<"b", "i", "n">>
CWD ==
    <<"/", "c", "w", "d">>
NameA ==
    <<"a", ".", "d", "l", "l">>
NameB ==
    <<"b", ".", "d", "l", "l">>
NameC ==
    <<"c", ".", "d", "l", "l">>
NameS ==
    <<"s", ".", "d", "l", "l">>
NameM ==
    <<"m", ".", "d", "l", "l">>
DLL ==
    <<"d", "l", "l">>
DOT_DLL ==
    <<".", "d", "l", "l">>
UPPER ==
    <<"A", "B", "C", "D", "E", "F", "G", "H", "I", "J", "K", "L", "M", "N", "O", "P", "Q", "R", "S", "T", "U", "V", "W", "X", "Y", "Z">>
LOWER ==
    <<"a", "b", "c", "d", "e", "f", "g", "h", "i", "j", "k", "l", "m", "n", "o", "p", "q", "r", "s", "t", "u", "v", "w", "x", "y", "z">>

InBin(name) == PREFIX \o <<SLASH>> \o BIN \o <<SLASH>> \o name

(* the system library every binary links, outside the prefix, as a Mach-O  *)
(* record and as a PE import                                               *)
SYSTEM_LIB ==
    <<"/", "u", "s", "r", "/", "l", "i", "b", "/", "l", "i", "b", "s", "y", "s", "t", "e", "m", ".", "e", "x", "t">>
SYSTEM_DLL ==
    <<"K", "E", "R", "N", "E", "L", "3", "2", ".", "d", "l", "l">>

(* a second directory of the tree that holds a copy of one library *)
LIB ==
    <<"l", "i", "b">>

InLib(name) == PREFIX \o <<SLASH>> \o LIB \o <<SLASH>> \o name

Files == {InBin(NameA), InBin(NameB), InBin(NameC), InLib(NameA), SYSTEM_LIB}
Links == [l \in {InBin(NameS)} |-> InBin(NameB)]

(* the pairs (binary, name it links to) an install tree may hold *)
PotentialEdges ==
    {<<NameA, NameB>>, <<NameB, NameA>>, <<NameA, NameC>>,
     <<NameB, NameC>>, <<NameC, NameM>>}

(* the names in the order the binaries record them *)
NameOrder == <<NameA, NameB, NameC, NameM>>

(* the entry points a caller may pass *)
EntryNames == {NameA, NameB, NameC, NameS, NameM}

(* how the Mach-O binaries of a tree were linked: the form of their        *)
(* linked-library records and their LC_RPATH records                       *)
(* the LC_RPATH records a binary may carry *)
RpathDirs == {LOADER_PATH, DOT, PREFIX \o <<SLASH>> \o LIB}

(* binaries linked with @rpath references and up to MaxDirs LC_RPATH records *)
RpathStyles ==
    {[form |-> "rpath", lc_rpath |-> r] : r \in SeqsUpTo(RpathDirs, MaxDirs)}

LinkStyles ==
    {[form |-> "absolute", lc_rpath |-> <<>>],
     [form |-> "rpath", lc_rpath |-> <<LOADER_PATH>>],
     [form |-> "rpath", lc_rpath |-> <<DOT>>]}

(***************************************************************************)
(* State.                                                                  *)
(***************************************************************************)
VARIABLES
    (* the object file handed to OSXRelocator.change_libs_path *)
    binLibs,        \* its linked-library records, in load-command order
    binRpaths,      \* its LC_RPATH records, in load-command order
    libs0,          \* the linked-library records before the first run
    rpaths0,        \* the LC_RPATH records before the first run
    (* change_libs_path *)
    rpc,            \* position: idle, change, rpath, done, error
    lib_prefixes,   \* the local lib_prefixes
    shared,         \* the list the for loop iterates over
    li,             \* index of the next lib of that loop
    rpaths,         \* the local rpaths of _remove_rpath
    pending,        \* the members of set(rpaths) not yet iterated
    ai,             \* index of the next p of the add loop
    runs,           \* completed calls of change_libs_path
    rpathsAfter,    \* the LC_RPATH records after each completed call
    log,            \* the tool invocations of the current call
    faults,         \* tool invocations that may still fail for outside reasons
    (* the install tree and the DepsTracker built for it *)
    platform,       \* the platform the tracker is built for
    lister,         \* class of DepsTracker.lister
    edges,          \* the pairs (binary, linked name) of the tree
    style,          \* how the Mach-O binaries were linked
    answers,        \* lib -> the lists list_file_deps may return for it
    (* DepsTracker.list_deps and RecursiveLister.list_deps *)
    dpc,            \* position: new, idle, loop, listed, returned, raised
    paths,          \* the argument paths
    pi,             \* index of the next path of the loop
    state,          \* the local state: lib -> in-progress or processed
    ordered,        \* the local ordered
    deps,           \* the local deps of the lister's list_deps
    stack,          \* the active find_deps calls, innermost last
    queried,        \* the libs list_file_deps was called for, this call
    result,         \* the list DepsTracker.list_deps returned, as a bag
    err,            \* the exception the call raised
    history,        \* the completed calls
    (* OtoolLister._replace_rpath, called for one reference in two runs *)
    replaced,       \* per run: the lib, the reference, rpaths as iterated,
                    \* and the path returned
    (* Version *)
    version,        \* the Version v
    text,           \* str(v), once taken
    parsed          \* the outcome of Version.parse(text), once called

relocVars == <<binLibs, binRpaths, libs0, rpaths0, rpc, lib_prefixes, shared,
               li, rpaths, pending, ai, runs, rpathsAfter, log, faults>>

treeVars == <<platform, lister, edges, style, answers>>

callVars == <<dpc, paths, pi, state, ordered, deps, stack, queried, result,
              err, history>>

depsVars == <<treeVars, callVars>>

otherVars == <<replaced, version, text, parsed>>

vars == <<relocVars, depsVars, otherVars>>

(***************************************************************************)
(* osxrelocator.py                                                         *)
(***************************************************************************)
(* OSXRelocator.list_shared_libraries *)
list_shared_libraries(records) ==
    LET res == OtoolLOutput(OBJECT_FILE, records)
        libs == Tail(res)
        cut == [i \in 1..Len(libs) |-> Tail(libs[i])]
    IN  [i \in 1..Len(cut) |-> Field(cut[i], SPACE, 1)]

(* _get_prefixes that keeps the system directories *)
_get_prefixes_unfiltered(records) ==
    {Dirname(x) : x \in Range(list_shared_libraries(records))}

(* OSXRelocator._get_prefixes *)
_get_prefixes(records) ==
    LET prefixes == {Dirname(x) : x \in Range(list_shared_libraries(records))}
    IN  {x \in prefixes :
            ~(StartsWith(x, USR_LIB) \/ StartsWith(x, SYSTEM_LIBRARY))}

(* the rpaths list comprehension of OSXRelocator._remove_rpath *)
RECURSIVE ParseRpathsFrom(_, _)
ParseRpathsFrom(lines, i) ==
    IF i > Len(lines) THEN <<>>
    ELSE (IF Contains(lines[i], CMD_LC_RPATH)
             /\ StartsWith(Strip(lines[i + 2]), PATH_WORD)
          THEN <<Field(Strip(lines[i + 2]), SPACE, 2)>>
          ELSE <<>>)
         \o ParseRpathsFrom(lines, i + 1)

ParseRpaths(records) == ParseRpathsFrom(OtoolLoadCommands(records), 1)

(* install_name_tool -change old new: every record naming old names new *)
ToolChange(records, old, new) ==
    [i \in 1..Len(records) |-> IF records[i] = old THEN new ELSE records[i]]

(* install_name_tool -delete_rpath: one LC_RPATH of that path is removed;  *)
(* the tool fails when the file has none.                                  *)
ToolDeleteOk(records, rpath) == rpath \in Range(records)
ToolDelete(records, rpath) == RemoveFirst(records, rpath)

(* install_name_tool -add_rpath: a new LC_RPATH after the existing ones;   *)
(* the tool fails when the file already has one of that path.              *)
ToolAddOk(records, p) == p \notin Range(records)
ToolAdd(records, p) == IF ToolAddOk(records, p) THEN Append(records, p) ELSE records

(* outcomes of one tool process: it runs, or fails for an outside reason *)
Outcomes == IF faults > 0 THEN {TRUE, FALSE} ELSE {TRUE}

Spend(ok) == faults' = IF ok THEN faults ELSE faults - 1

(* change_libs_path is called: lines 41-42 *)
ChangeLibsPath ==
    /\ rpc \in {"idle", "done"}
    /\ runs < MaxRuns
    /\ lib_prefixes' = _get_prefixes(binLibs)
    /\ shared' = list_shared_libraries(binLibs)
    /\ li' = 1
    /\ rpc' = "change"
    /\ log' = <<>>
    /\ rpaths' = <<>>
    /\ pending' = {}
    /\ ai' = 1
    /\ UNCHANGED <<binLibs, binRpaths, libs0, rpaths0, runs, rpathsAfter, faults>>
    /\ UNCHANGED <<depsVars, otherVars>>

(* one iteration of the loop over the shared libraries: lines 42-47 *)
ChangeStep ==
    /\ rpc = "change"
    /\ li <= Len(shared)
    /\ LET lib == shared[li]
           prefix == Dirname(lib)
           new_lib == Replace(lib, prefix, AT_RPATH)
       IN  IF prefix \in lib_prefixes
           THEN \E ok \in Outcomes :
                   /\ binLibs' = IF ok THEN ToolChange(binLibs, lib, new_lib)
                                 ELSE binLibs
                   /\ log' = Append(log, [op |-> "change", arg |-> lib,
                                          new |-> new_lib, rc |-> ok])
                   /\ Spend(ok)
           ELSE UNCHANGED <<binLibs, log, faults>>
    /\ li' = li + 1
    /\ UNCHANGED <<binRpaths, libs0, rpaths0, rpc, lib_prefixes, shared,
                   rpaths, pending, ai, runs, rpathsAfter>>
    /\ UNCHANGED <<depsVars, otherVars>>

(* _remove_rpath lists the LC_RPATH records: lines 66-74; check=True       *)
(* raises CalledProcessError when otool fails.                             *)
RemoveRpathList ==
    /\ rpc = "change"
    /\ li > Len(shared)
    /\ \E ok \in Outcomes :
          /\ Spend(ok)
          /\ log' = Append(log, [op |-> "list", arg |-> <<>>,
                                 new |-> <<>>, rc |-> ok])
          /\ IF ok
             THEN /\ rpaths' = ParseRpaths(binRpaths)
                  /\ pending' = Range(ParseRpaths(binRpaths))
                  /\ rpc' = "rpath"
             ELSE /\ rpc' = "error"
                  /\ UNCHANGED <<rpaths, pending>>
    /\ UNCHANGED <<binLibs, binRpaths, libs0, rpaths0, lib_prefixes, shared,
                   li, ai, runs, rpathsAfter>>
    /\ UNCHANGED <<depsVars, otherVars>>

(* the removal loop with check=True: a failed removal raises *)
DeleteStepChecked ==
    /\ rpc = "rpath"
    /\ pending # {}
    /\ \E rpath \in pending : \E ran \in Outcomes :
          LET ok == ran /\ ToolDeleteOk(binRpaths, rpath)
          IN  /\ binRpaths' = IF ok THEN ToolDelete(binRpaths, rpath)
                              ELSE binRpaths
              /\ log' = Append(log, [op |-> "delete", arg |-> rpath,
                                     new |-> <<>>, rc |-> ok])
              /\ Spend(ran)
              /\ pending' = pending \ {rpath}
              /\ rpc' = IF ok THEN rpc ELSE "error"
    /\ UNCHANGED <<binLibs, libs0, rpaths0, lib_prefixes, shared, li,
                   rpaths, ai, runs, rpathsAfter>>
    /\ UNCHANGED <<depsVars, otherVars>>

(* one iteration of `for rpath in set(rpaths)`: lines 77-82; the order of  *)
(* a set of strings is not fixed.                                          *)
DeleteStep ==
    /\ rpc = "rpath"
    /\ pending # {}
    /\ \E rpath \in pending : \E ran \in Outcomes :
          LET ok == ran /\ ToolDeleteOk(binRpaths, rpath)
          IN  /\ binRpaths' = IF ok THEN ToolDelete(binRpaths, rpath)
                              ELSE binRpaths
              /\ log' = Append(log, [op |-> "delete", arg |-> rpath,
                                     new |-> <<>>, rc |-> ok])
              /\ Spend(ran)
              /\ pending' = pending \ {rpath}
    /\ UNCHANGED <<binLibs, libs0, rpaths0, rpc, lib_prefixes, shared, li,
                   rpaths, ai, runs, rpathsAfter>>
    /\ UNCHANGED <<depsVars, otherVars>>

(* one iteration of the loop over the three run paths: lines 49-50; the    *)
(* call returns after the last one.                                        *)
AddStep ==
    /\ rpc = "rpath"
    /\ pending = {}
    /\ ai <= Len(ADDED_RPATHS)
    /\ \E ran \in Outcomes :
          LET p == ADDED_RPATHS[ai]
              ok == ran /\ ToolAddOk(binRpaths, p)
              after == IF ok THEN ToolAdd(binRpaths, p) ELSE binRpaths
          IN  /\ binRpaths' = after
              /\ log' = Append(log, [op |-> "add", arg |-> p,
                                     new |-> <<>>, rc |-> ok])
              /\ Spend(ran)
              /\ IF ai = Len(ADDED_RPATHS)
                 THEN /\ rpc' = "done"
                      /\ runs' = runs + 1
                      /\ rpathsAfter' = Append(rpathsAfter, after)
                 ELSE UNCHANGED <<rpc, runs, rpathsAfter>>
    /\ ai' = ai + 1
    /\ UNCHANGED <<binLibs, libs0, rpaths0, lib_prefixes, shared, li,
                   rpaths, pending>>
    /\ UNCHANGED <<depsVars, otherVars>>

(***************************************************************************)
(* depstracker.py: values and the file system                              *)
(***************************************************************************)
(* a pathlib.Path and a str of the same text are different dictionary keys *)
PathOf(s) == [t |-> "Path", s |-> s]
StrOf(s) == [t |-> "str", s |-> s]

(* a relative name is taken from the working directory *)
Absolute(s) == IF s # <<>> /\ s[1] = SLASH THEN s ELSE CWD \o <<SLASH>> \o s

(* Path.resolve, os.path.realpath *)
Resolve(s) ==
    LET a == Absolute(s) IN IF a \in DOMAIN Links THEN Links[a] ELSE a

(* Path.exists, os.path.exists *)
Exists(s) == Resolve(s) \in Files

(* os.path.join(prefix, 'bin', x) *)
JoinBin(prefix, x) ==
    IF x # <<>> /\ x[1] = SLASH THEN x
    ELSE prefix \o <<SLASH>> \o BIN \o <<SLASH>> \o x

(* str.lower *)
LowerChar(c) ==
    IF \E i \in 1..Len(UPPER) : UPPER[i] = c
    THEN LOWER[CHOOSE i \in 1..Len(UPPER) : UPPER[i] = c] ELSE c
Lower(s) == [i \in 1..Len(s) |-> LowerChar(s[i])]

(* the members of a sequence in order, each once *)
RECURSIVE Dedup(_)
Dedup(s) ==
    IF s = <<>> THEN <<>>
    ELSE LET front == Dedup(SubSeq(s, 1, Len(s) - 1))
         IN  IF s[Len(s)] \in Range(front) THEN front
             ELSE Append(front, s[Len(s)])

(* the orders in which a set may be iterated *)
Perms(S) == {f \in [1..Cardinality(S) -> S] : Range(f) = S}

(* the names the binary at path links to, and what the tools print for it *)
Imports(path) ==
    SelectSeq(NameOrder, LAMBDA y : <<Basename(Resolve(path)), y>> \in edges)

ObjdumpStdout(path) ==
    IF Exists(path)
    THEN ObjdumpOutput(path, Imports(path) \o <<SYSTEM_DLL>>)
    ELSE <<>>

InstallName(name) ==
    IF style.form = "rpath" THEN AT_RPATH \o <<SLASH>> \o name ELSE InBin(name)

OtoolLStdout(path) ==
    IF Exists(path)
    THEN OtoolLOutput(path,
             <<InstallName(Basename(Resolve(path)))>> \o
             [i \in 1..Len(Imports(path)) |-> InstallName(Imports(path)[i])]
             \o <<SYSTEM_LIB>>)
    ELSE <<>>

OtoolLoadStdout(path) ==
    IF Exists(path) THEN OtoolLoadCommands(style.lc_rpath) ELSE <<>>

(***************************************************************************)
(* ObjdumpLister                                                           *)
(***************************************************************************)
(* the last white-space character of a line, 0 when it has none *)
LastWhite(x) ==
    IF \E i \in 1..Len(x) : IsWhite(x[i])
    THEN CHOOSE i \in 1..Len(x) :
             IsWhite(x[i]) /\ \A j \in (i + 1)..Len(x) : ~IsWhite(x[j])
    ELSE 0

(* group 1 of (?i)^.*DLL[^:]*: (\S+\.dll)$ : the text after the last blank *)
DllGroup(x) == SubSeq(x, LastWhite(x) + 1, Len(x))

(* prog.match(x) is not None *)
DllMatch(x) ==
    LET k == LastWhite(x)
        g == DllGroup(x)
    IN  /\ k >= 2
        /\ x[k] = SPACE
        /\ x[k - 1] = ":"
        /\ Len(g) >= 5
        /\ EndsWith(Lower(g), DOT_DLL)
        /\ \E i \in 1..(k - 4) :
              /\ Lower(SubSeq(x, i, i + 2)) = DLL
              /\ \A j \in (i + 3)..(k - 2) : x[j] # ":"

(* ObjdumpLister.list_file_deps: a list of str *)
ObjdumpListFileDeps(prefix, path) ==
    LET lines == ObjdumpStdout(path)
        matched == SelectSeq(lines, DllMatch)
        names == [i \in 1..Len(matched) |-> DllGroup(matched[i])]
        dlls == SelectSeq(names, LAMBDA x : EndsWith(Lower(x), DLL))
        joined == [i \in 1..Len(dlls) |-> JoinBin(prefix, dlls[i])]
        found == SelectSeq(joined, Exists)
    IN  [i \in 1..Len(found) |-> StrOf(Resolve(found[i]))]

(***************************************************************************)
(* OtoolLister                                                             *)
(***************************************************************************)
(* OtoolLister._get_rpaths: the set of run-path directories *)
RECURSIVE GetRpathsFrom(_, _, _, _)
GetRpathsFrom(lines, i, path, prefix) ==
    IF i > Len(lines) THEN {}
    ELSE IF Contains(lines[i], CMD_LC_RPATH)
         THEN LET rpath == Field(Strip(lines[i + 2]), SPACE, 2)
                  subst ==
                      IF Len(rpath) = 1 THEN Replace(rpath, DOT, prefix)
                      ELSE Replace(Replace(rpath, LOADER_PATH, Dirname(path)),
                                   EXECUTABLE_PATH, Dirname(path))
              IN  {subst} \cup GetRpathsFrom(lines, i + 3, path, prefix)
         ELSE GetRpathsFrom(lines, i + 1, path, prefix)

_get_rpaths(path, prefix) ==
    GetRpathsFrom(OtoolLoadStdout(path), 1, path, prefix)

(* OtoolLister._replace_rpath, dirs being rpaths in the order of iteration *)
RECURSIVE _replace_rpath(_, _)
_replace_rpath(path, dirs) ==
    IF dirs = <<>> THEN PathOf(Resolve(path))
    ELSE LET translatedPath == Replace(path, AT_RPATH, Head(dirs))
         IN  IF Exists(translatedPath) THEN PathOf(Resolve(translatedPath))
             ELSE _replace_rpath(path, Tail(dirs))

(* OtoolLister.list_file_deps: a list of Path; the lines are held in a set *)
(* and so is the result of _get_rpaths, whose order is the argument.       *)
OtoolListFileDeps(prefix, path, dirs) ==
    LET lines == Dedup(OtoolLStdout(path))
        kept == SelectSeq(lines, LAMBDA x :
                    Contains(x, prefix) \/ Contains(x, AT_RPATH))
        names == [i \in 1..Len(kept) |-> Field(Strip(kept[i]), SPACE, 1)]
        others == SelectSeq(names, LAMBDA d : ~EndsWith(d, Basename(path)))
    IN  [i \in 1..Len(others) |-> _replace_rpath(others[i], dirs)]

(***************************************************************************)
(* RecursiveLister                                                         *)
(***************************************************************************)
(* the lists self.list_file_deps(prefix, lib) may return *)
list_file_deps(self, prefix, lib) ==
    IF self = "ObjdumpLister" THEN {ObjdumpListFileDeps(prefix, lib.s)}
    ELSE {OtoolListFileDeps(prefix, lib.s, order) :
              order \in Perms(_get_rpaths(lib.s, prefix))}

(* DepsTracker.BACKENDS *)
BACKENDS ==
    [p \in {"Windows", "Linux", "Darwin"} |->
        CASE p = "Windows" -> "ObjdumpLister"
          [] p = "Linux" -> "LddLister"
          [] p = "Darwin" -> "OtoolLister"]

(* the values find_deps can meet in the install tree: the entry points,    *)
(* the first line of otool -L taken for a name, and an @rpath reference    *)
(* resolved in the working directory                                       *)
Libs ==
    LET texts == {InBin(n) : n \in EntryNames}
                 \cup {InBin(n) \o <<":">> : n \in EntryNames}
                 \cup {Absolute(AT_RPATH \o <<SLASH>> \o n) : n \in EntryNames}
    IN  {PathOf(x) : x \in texts} \cup {StrOf(x) : x \in texts}

(* the positions of a frame's remaining lib_deps the loop may take next:   *)
(* the first, or any when the list came out of a set                       *)
NextPositions(rest) ==
    IF lister = "OtoolLister" THEN 1..Len(rest) ELSE {1}

RemoveAt(s, i) == SubSeq(s, 1, i - 1) \o SubSeq(s, i + 1, Len(s))

Top == stack[Len(stack)]
Pop == SubSeq(stack, 1, Len(stack) - 1)

(* state.get(lib, 'clean') *)
StateOf(lib) == IF lib \in DOMAIN state THEN state[lib] ELSE "clean"

(* [d.resolve() for d in deps]: the resolved paths with their counts *)
Resolved(ds) ==
    [s \in {Resolve(d.s) : d \in ds} |->
        Cardinality({d \in ds : Resolve(d.s) = s})]

Completed(status, e, res) ==
    Append(history, [paths |-> paths, status |-> status, err |-> e,
                     deps |-> deps, result |-> res])

(* the arguments of a call: any entry points at first; a later call        *)
(* repeats the one before, as given or without its missing entry points    *)
EntryLists ==
    IF history = <<>>
    THEN {[i \in DOMAIN names |-> PathOf(InBin(names[i]))] :
             names \in SeqsUpTo(EntryNames, MaxPaths)}
    ELSE LET last == history[Len(history)].paths
         IN  {last, SelectSeq(last, LAMBDA p : Exists(p.s))}

(* DepsTracker.__init__: lines 135-138.  The tree does not change while   *)
(* the tracker is used, so what list_file_deps answers for a lib is fixed. *)
DepsTrackerInit ==
    /\ dpc = "new"
    /\ lister' = BACKENDS[platform]
    /\ answers' = IF BACKENDS[platform] = "LddLister" THEN <<>>
                  ELSE [lib \in Libs |->
                           list_file_deps(BACKENDS[platform], PREFIX, lib)]
    /\ dpc' = "idle"
    /\ UNCHANGED <<platform, edges, style, paths, pi, state, ordered, deps,
                   stack, queried, result, err, history, relocVars,
                   otherVars>>

(* a RecursiveLister that is no platform Lister is put to use: the class  *)
(* of lines 28-31, whose list_file_deps is `raise NotImplemented()`       *)
RecursiveListerInit ==
    /\ dpc = "new"
    /\ lister' = "RecursiveLister"
    /\ answers' = <<>>
    /\ dpc' = "idle"
    /\ UNCHANGED <<platform, edges, style, paths, pi, state, ordered, deps,
                   stack, queried, result, err, history, relocVars,
                   otherVars>>

(* list_deps that goes on with the state and the ordered of the call *)
(* before, as the defaults of find_deps would be                     *)
ListDepsSharedState ==
    /\ lister \in {"ObjdumpLister", "OtoolLister"}
    /\ dpc \in {"idle", "returned", "raised"}
    /\ Len(history) < MaxCalls
    /\ paths' \in EntryLists
    /\ pi' = 1
    /\ deps' = {}
    /\ stack' = <<>>
    /\ queried' = <<>>
    /\ result' = <<>>
    /\ err' = "none"
    /\ dpc' = "loop"
    /\ UNCHANGED <<state, ordered, treeVars, history, relocVars,
                   otherVars>>

(* DepsTracker.list_deps with a RecursiveLister: lines 141 and 47-49 *)
ListDeps ==
    /\ lister \in {"ObjdumpLister", "OtoolLister", "RecursiveLister"}
    /\ dpc \in {"idle", "returned", "raised"}
    /\ Len(history) < MaxCalls
    /\ paths' \in EntryLists
    /\ pi' = 1
    /\ state' = <<>>
    /\ ordered' = <<>>
    /\ deps' = {}
    /\ stack' = <<>>
    /\ queried' = <<>>
    /\ result' = <<>>
    /\ err' = "none"
    /\ dpc' = "loop"
    /\ UNCHANGED <<treeVars, history, relocVars,
                   otherVars>>

(* DepsTracker.list_deps with the LddLister: lines 141 and 122-125; the    *)
(* list paths is an element of the command line, which subprocess.run      *)
(* refuses with a TypeError.                                               *)
LddListDeps ==
    /\ lister = "LddLister"
    /\ dpc \in {"idle", "returned", "raised"}
    /\ Len(history) < MaxCalls
    /\ \E ps \in EntryLists :
          /\ paths' = ps
          /\ history' = Append(history,
                 [paths |-> ps, status |-> "raised", err |-> "TypeError",
                  deps |-> {}, result |-> <<>>])
    /\ pi' = 1
    /\ state' = <<>>
    /\ ordered' = <<>>
    /\ deps' = {}
    /\ stack' = <<>>
    /\ queried' = <<>>
    /\ result' = <<>>
    /\ err' = "TypeError"
    /\ dpc' = "raised"
    /\ UNCHANGED <<treeVars, relocVars,
                   otherVars>>

(* an iteration of the loop of list_deps for a path that does not exist:   *)
(* lines 50-52                                                             *)
SkipMissing ==
    /\ dpc = "loop"
    /\ stack = <<>>
    /\ pi <= Len(paths)
    /\ ~Exists(paths[pi].s)
    /\ pi' = pi + 1
    /\ UNCHANGED <<dpc, paths, state, ordered, deps, stack, queried, result,
                   err, history, treeVars, relocVars,
                   otherVars>>

(* an iteration for a path that exists calls find_deps on its resolved     *)
(* path: lines 53-55 and 34-39; find_deps returns None at once for a lib   *)
(* that is processed or in progress.                                       *)
EnterEntry ==
    /\ lister # "RecursiveLister"
    /\ dpc = "loop"
    /\ stack = <<>>
    /\ pi <= Len(paths)
    /\ Exists(paths[pi].s)
    /\ LET lib == PathOf(Resolve(paths[pi].s))
       IN  IF StateOf(lib) \in {"processed", "in-progress"}
           THEN /\ pi' = pi + 1
                /\ UNCHANGED <<state, stack, queried>>
           ELSE /\ \E lib_deps \in answers[lib] :
                      stack' = <<[lib |-> lib, rest |-> lib_deps]>>
                /\ state' = (lib :> "in-progress") @@ state
                /\ queried' = Append(queried, lib)
                /\ UNCHANGED pi
    /\ UNCHANGED <<dpc, paths, ordered, deps, result, err, history,
                   treeVars, relocVars,
                   otherVars>>

(* the base list_file_deps taken to return no dependencies *)
EnterEntrySwallowed ==
    /\ lister = "RecursiveLister"
    /\ dpc = "loop"
    /\ stack = <<>>
    /\ pi <= Len(paths)
    /\ Exists(paths[pi].s)
    /\ LET lib == PathOf(Resolve(paths[pi].s))
       IN  IF StateOf(lib) \in {"processed", "in-progress"}
           THEN /\ pi' = pi + 1
                /\ UNCHANGED <<state, stack, queried>>
           ELSE /\ stack' = <<[lib |-> lib, rest |-> <<>>]>>
                /\ state' = (lib :> "in-progress") @@ state
                /\ queried' = Append(queried, lib)
                /\ UNCHANGED pi
    /\ UNCHANGED <<dpc, paths, ordered, deps, result, err, history,
                   treeVars, relocVars,
                   otherVars>>

(* the same iteration with the base RecursiveLister: list_file_deps, line  *)
(* 31, calls NotImplemented, which is not callable, and the TypeError      *)
(* leaves find_deps, list_deps and the caller's call.                      *)
EnterEntryNotImplemented ==
    /\ lister = "RecursiveLister"
    /\ dpc = "loop"
    /\ stack = <<>>
    /\ pi <= Len(paths)
    /\ Exists(paths[pi].s)
    /\ LET lib == PathOf(Resolve(paths[pi].s))
       IN  IF StateOf(lib) \in {"processed", "in-progress"}
           THEN /\ pi' = pi + 1
                /\ UNCHANGED <<dpc, state, queried, err, history>>
           ELSE /\ state' = (lib :> "in-progress") @@ state
                /\ queried' = Append(queried, lib)
                /\ dpc' = "raised"
                /\ err' = "TypeError"
                /\ history' = Completed("raised", "TypeError", <<>>)
                /\ UNCHANGED pi
    /\ UNCHANGED <<paths, ordered, deps, stack, result, treeVars, relocVars,
                   otherVars>>

(* find_deps that appends a lib to ordered before it takes its lib_deps *)
FindDepsAppendsOnEntry ==
    /\ dpc = "loop"
    /\ stack # <<>>
    /\ Top.rest # <<>>
    /\ \E i \in NextPositions(Top.rest) :
          LET libdep == Top.rest[i]
              caller == [Top EXCEPT !.rest = RemoveAt(Top.rest, i)]
          IN  IF StateOf(libdep) \in {"processed", "in-progress"}
              THEN /\ stack' = Append(Pop, caller)
                   /\ UNCHANGED <<state, queried, ordered>>
              ELSE /\ \E lib_deps \in answers[libdep] :
                         stack' = Append(Append(Pop, caller),
                                         [lib |-> libdep, rest |-> lib_deps])
                   /\ state' = (libdep :> "in-progress") @@ state
                   /\ queried' = Append(queried, libdep)
                   /\ ordered' = Append(ordered, libdep)
    /\ UNCHANGED <<dpc, paths, pi, deps, result, err, history,
                   treeVars, relocVars,
                   otherVars>>

(* find_deps that takes a lib met again while in progress for an error *)
FindDepsCycleRaises ==
    /\ dpc = "loop"
    /\ stack # <<>>
    /\ Top.rest # <<>>
    /\ \E i \in NextPositions(Top.rest) :
          LET libdep == Top.rest[i]
              caller == [Top EXCEPT !.rest = RemoveAt(Top.rest, i)]
          IN  IF StateOf(libdep) = "in-progress"
              THEN /\ dpc' = "raised"
                   /\ err' = "RecursionError"
                   /\ UNCHANGED <<stack, state, queried>>
              ELSE /\ UNCHANGED <<dpc, err>>
                   /\ IF StateOf(libdep) = "processed"
                      THEN /\ stack' = Append(Pop, caller)
                           /\ UNCHANGED <<state, queried>>
                      ELSE /\ \E lib_deps \in answers[libdep] :
                                 stack' = Append(Append(Pop, caller),
                                     [lib |-> libdep, rest |-> lib_deps])
                           /\ state' = (libdep :> "in-progress") @@ state
                           /\ queried' = Append(queried, libdep)
    /\ UNCHANGED <<paths, pi, ordered, deps, result, history, treeVars,
                   relocVars,
                   otherVars>>

(* an iteration of the loop over lib_deps calls find_deps on a libdep:     *)
(* lines 40-41 and 34-39                                                   *)
FindDeps ==
    /\ dpc = "loop"
    /\ stack # <<>>
    /\ Top.rest # <<>>
    /\ \E i \in NextPositions(Top.rest) :
          LET libdep == Top.rest[i]
              caller == [Top EXCEPT !.rest = RemoveAt(Top.rest, i)]
          IN  IF StateOf(libdep) \in {"processed", "in-progress"}
              THEN /\ stack' = Append(Pop, caller)
                   /\ UNCHANGED <<state, queried>>
              ELSE /\ \E lib_deps \in answers[libdep] :
                         stack' = Append(Append(Pop, caller),
                                         [lib |-> libdep, rest |-> lib_deps])
                   /\ state' = (libdep :> "in-progress") @@ state
                   /\ queried' = Append(queried, libdep)
    /\ UNCHANGED <<dpc, paths, pi, ordered, deps, result, err, history,
                   treeVars, relocVars,
                   otherVars>>

(* list_deps that adds the entry point and the lib it resolves to, and  *)
(* not the list find_deps gave back                                     *)
FindDepsReturnEntryOnly ==
    /\ dpc = "loop"
    /\ stack # <<>>
    /\ Top.rest = <<>>
    /\ state' = [state EXCEPT ![Top.lib] = "processed"]
    /\ stack' = Pop
    /\ IF Len(stack) = 1
       THEN /\ ordered' = Append(Append(ordered, Top.lib), paths[pi])
            /\ deps' = deps \cup {Top.lib, paths[pi]}
            /\ pi' = pi + 1
       ELSE /\ ordered' = Append(ordered, Top.lib)
            /\ UNCHANGED <<deps, pi>>
    /\ UNCHANGED <<dpc, paths, queried, result, err, history, treeVars,
                   relocVars,
                   otherVars>>

(* find_deps is through with the lib_deps of a lib: lines 42-44; when it   *)
(* is the call list_deps made, list_deps goes on with lines 56-58: the     *)
(* list it got back is ordered itself.                                     *)
FindDepsReturn ==
    /\ dpc = "loop"
    /\ stack # <<>>
    /\ Top.rest = <<>>
    /\ state' = [state EXCEPT ![Top.lib] = "processed"]
    /\ stack' = Pop
    /\ IF Len(stack) = 1
       THEN LET new_deps == Append(Append(ordered, Top.lib), paths[pi])
            IN  /\ ordered' = new_deps
                /\ deps' = deps \cup Range(new_deps)
                /\ pi' = pi + 1
       ELSE /\ ordered' = Append(ordered, Top.lib)
            /\ UNCHANGED <<deps, pi>>
    /\ UNCHANGED <<dpc, paths, queried, result, err, history, treeVars,
                   relocVars,
                   otherVars>>

(* RecursiveLister.list_deps returns deps: line 58 *)
ListerReturn ==
    /\ dpc = "loop"
    /\ stack = <<>>
    /\ pi > Len(paths)
    /\ dpc' = "listed"
    /\ UNCHANGED <<paths, pi, state, ordered, deps, stack, queried, result,
                   err, history, treeVars, relocVars,
                   otherVars>>

(* DepsTracker.list_deps resolves the members of deps: line 142; a str has *)
(* no resolve.                                                             *)
TrackerReturn ==
    /\ dpc = "listed"
    /\ IF \E d \in deps : d.t = "str"
       THEN /\ dpc' = "raised"
            /\ err' = "AttributeError"
            /\ result' = <<>>
            /\ history' = Completed("raised", "AttributeError", <<>>)
       ELSE /\ dpc' = "returned"
            /\ err' = "none"
            /\ result' = Resolved(deps)
            /\ history' = Completed("returned", "none", Resolved(deps))
    /\ UNCHANGED <<paths, pi, state, ordered, deps, stack, queried, treeVars,
                   relocVars,
                   otherVars>>

(***************************************************************************)
(* OtoolLister._replace_rpath on its own: one reference of one lib,        *)
(* resolved in two runs of the tracker on the same tree.                   *)
(***************************************************************************)
(* the libs whose references are resolved, and the references *)
RpathLibs == {InBin(NameA), InBin(NameB), InBin(NameM)}

References ==
    {AT_RPATH \o <<SLASH>> \o n : n \in {NameA, NameB, NameM}}
        \cup {InBin(NameA)}

(* lines 87-88 for one x: rpaths is the set of _get_rpaths, the for loop   *)
(* of _replace_rpath iterates it in one of its orders                      *)
RpathRun(lib, path) ==
    {[lib |-> lib, path |-> path, rpaths |-> order,
      resolved |-> _replace_rpath(path, order)] :
         order \in Perms(_get_rpaths(lib, PREFIX))}

(* the first run *)
ReplaceRpath ==
    /\ lister = "OtoolLister"
    /\ replaced = <<>>
    /\ \E lib \in RpathLibs, path \in References :
           \E r \in RpathRun(lib, path) : replaced' = <<r>>
    /\ UNCHANGED <<version, text, parsed, depsVars, relocVars>>

(* a second run, for the same lib and reference *)
ReplaceRpathAgain ==
    /\ lister = "OtoolLister"
    /\ Len(replaced) = 1
    /\ \E r \in RpathRun(replaced[1].lib, replaced[1].path) :
           replaced' = Append(replaced, r)
    /\ UNCHANGED <<version, text, parsed, depsVars, relocVars>>

(***************************************************************************)
(* Version (version.py).                                                   *)
(***************************************************************************)
DIGITS == <<"0", "1", "2", "3", "4", "5", "6", "7", "8", "9">>

(* str(n) of a non-negative int *)
RECURSIVE IntStr(_)
IntStr(n) ==
    IF n < 10 THEN <<DIGITS[n + 1]>>
    ELSE Append(IntStr(n \div 10), DIGITS[(n % 10) + 1])

(* s.split(sep) for a one-character sep *)
RECURSIVE Split(_, _)
Split(s, sep) ==
    IF \E i \in 1..Len(s) : s[i] = sep
    THEN LET i == CHOOSE i \in 1..Len(s) :
                      s[i] = sep /\ \A j \in 1..(i - 1) : s[j] # sep
         IN  <<SubSeq(s, 1, i - 1)>> \o Split(SubSeq(s, i + 1, Len(s)), sep)
    ELSE <<s>>

(* int(s) accepts s: decimal digits (signs, blanks and underscores are not *)
(* in the texts met here)                                                  *)
IsInt(s) == s # <<>> /\ \A i \in 1..Len(s) : s[i] \in Range(DIGITS)

DigitValue(c) == (CHOOSE k \in 1..10 : DIGITS[k] = c) - 1

RECURSIVE ToInt(_)
ToInt(s) ==
    IF s = <<>> THEN 0
    ELSE 10 * ToInt(SubSeq(s, 1, Len(s) - 1)) + DigitValue(s[Len(s)])

Version(major, minor, patch, build) ==
    [major |-> major, minor |-> minor, patch |-> patch, build |-> build]

(* Version.__str__ *)
VersionStr(v) ==
    IntStr(v.major) \o DOT \o IntStr(v.minor) \o DOT \o IntStr(v.patch)
        \o DOT \o IntStr(v.build)

(* Version.__eq__ for two Versions *)
VersionEq(a, b) ==
    /\ a.major = b.major
    /\ a.minor = b.minor
    /\ a.patch = b.patch
    /\ a.build = b.build

(* Version.parse: the Version, or the ValueError of line 58 or of int() *)
Parse(version_str) ==
    LET parts == Split(version_str, ".")
        read == IF Len(parts) = 3 THEN {1, 2, 3}
                ELSE IF Len(parts) > 3 THEN {1, 2, 4} ELSE {1, 2}
    IN  IF Len(parts) < 2 \/ \E i \in read : ~IsInt(parts[i])
        THEN [raised |-> "ValueError", value |-> Version(0, 0, 0, 0)]
        ELSE [raised |-> "none",
              value |-> Version(ToInt(parts[1]), ToInt(parts[2]),
                                IF Len(parts) = 3 THEN ToInt(parts[3]) ELSE 0,
                                IF Len(parts) > 3 THEN ToInt(parts[4]) ELSE 0)]

(* the values a component of a Version takes here: up to MaxPart, and one  *)
(* of two digits                                                           *)
Parts == 0..MaxPart \cup {10 + MaxPart}

(* str(v) is taken *)
TakeStr ==
    /\ text = <<>>
    /\ text' = VersionStr(version)
    /\ UNCHANGED <<version, parsed, replaced, depsVars, relocVars>>

(* Version.parse is called on the text *)
CallParse ==
    /\ text # <<>>
    /\ parsed = <<>>
    /\ parsed' = <<Parse(text)>>
    /\ UNCHANGED <<version, text, replaced, depsVars, relocVars>>

(***************************************************************************)
(* Specifications.                                                         *)
(***************************************************************************)
RelocInputs ==
    /\ binLibs \in SeqsUpTo(LibRecords, MaxLibs)
    /\ binRpaths \in SeqsUpTo(RpathRecords, MaxRpaths)
    /\ libs0 = binLibs
    /\ rpaths0 = binRpaths
    /\ rpc = "idle"
    /\ lib_prefixes = {}
    /\ shared = <<>>
    /\ li = 1
    /\ rpaths = <<>>
    /\ pending = {}
    /\ ai = 1
    /\ runs = 0
    /\ rpathsAfter = <<>>
    /\ log = <<>>

NoCall ==
    /\ dpc = "new"
    /\ paths = <<>>
    /\ pi = 1
    /\ state = <<>>
    /\ ordered = <<>>
    /\ deps = {}
    /\ stack = <<>>
    /\ queried = <<>>
    /\ result = <<>>
    /\ err = "none"
    /\ history = <<>>

NoTree ==
    /\ platform = "Darwin"
    /\ lister = "none"
    /\ edges = {}
    /\ style = [form |-> "absolute", lc_rpath |-> <<>>]
    /\ answers = <<>>

NoObjectFile ==
    /\ binLibs = <<>>
    /\ binRpaths = <<>>
    /\ libs0 = <<>>
    /\ rpaths0 = <<>>
    /\ rpc = "idle"
    /\ lib_prefixes = {}
    /\ shared = <<>>
    /\ li = 1
    /\ rpaths = <<>>
    /\ pending = {}
    /\ ai = 1
    /\ runs = 0
    /\ rpathsAfter = <<>>
    /\ log = <<>>
    /\ faults = 0

NoOther ==
    /\ replaced = <<>>
    /\ version = [major |-> 0, minor |-> 0, patch |-> 0, build |-> 0]
    /\ text = <<>>
    /\ parsed = <<>>

(* the tools never fail for outside reasons *)
InitReloc == RelocInputs /\ faults = 0 /\ NoTree /\ NoCall /\ NoOther

(* up to MaxFaults tool processes fail for outside reasons *)
InitRelocFaults ==
    RelocInputs /\ faults \in 1..MaxFaults /\ NoTree /\ NoCall /\ NoOther

NextReloc ==
    \/ ChangeLibsPath
    \/ ChangeStep
    \/ RemoveRpathList
    \/ DeleteStep
    \/ AddStep

SpecReloc == InitReloc /\ [][NextReloc]_vars

(* Main.run: the script makes one call of change_libs_path and exits *)
MainRun == runs = 0 /\ ChangeLibsPath

NextMain ==
    \/ MainRun
    \/ ChangeStep
    \/ RemoveRpathList
    \/ DeleteStep
    \/ AddStep

(* one run of the script with tools that may fail *)
SpecRelocFaults == InitRelocFaults /\ [][NextMain]_vars

(* a DepsTracker of one of the three platforms over an install tree *)
InitDeps ==
    /\ platform \in DOMAIN BACKENDS
    /\ edges \in SUBSET PotentialEdges
    /\ style \in LinkStyles
    /\ platform # "Darwin" => style = [form |-> "absolute", lc_rpath |-> <<>>]
    /\ platform = "Linux" => edges = {}
    /\ lister = "none"
    /\ answers = <<>>
    /\ NoCall
    /\ NoObjectFile
    /\ NoOther

NextDeps ==
    \/ DepsTrackerInit
    \/ RecursiveListerInit
    \/ ListDeps
    \/ LddListDeps
    \/ SkipMissing
    \/ EnterEntry
    \/ EnterEntryNotImplemented
    \/ FindDeps
    \/ FindDepsReturn
    \/ ListerReturn
    \/ TrackerReturn

SpecDeps == InitDeps /\ [][NextDeps]_vars

(* an OtoolLister over a tree whose binaries carry LC_RPATH records *)
InitRpath ==
    /\ platform = "Darwin"
    /\ lister = BACKENDS["Darwin"]
    /\ edges = {}
    /\ style \in RpathStyles
    /\ answers = <<>>
    /\ NoCall
    /\ NoObjectFile
    /\ NoOther

NextRpath ==
    \/ ReplaceRpath
    \/ ReplaceRpathAgain

SpecRpath == InitRpath /\ [][NextRpath]_vars

(* a Version of non-negative components *)
InitVersion ==
    /\ version \in [major : Parts, minor : Parts, patch : Parts, build : Parts]
    /\ text = <<>>
    /\ parsed = <<>>
    /\ replaced = <<>>
    /\ NoTree
    /\ NoCall
    /\ NoObjectFile

NextVersion ==
    \/ TakeStr
    \/ CallParse

SpecVersion == InitVersion /\ [][NextVersion]_vars

Spec == SpecDeps

(***************************************************************************)
(* Properties of the relocator.                                            *)
(***************************************************************************)
(* a directory that lies under /usr/lib or /System/Library *)
UnderDir(d, root) == d = root \/ StartsWith(d, root \o <<SLASH>>)
UnderSystemDir(d) == UnderDir(d, USR_LIB) \/ UnderDir(d, SYSTEM_LIBRARY)

(* C7: after change_libs_path completes, the run-path records are exactly  *)
(* ['.', '@loader_path', '@executable_path'], in that order, whatever the  *)
(* binary held before.                                                     *)
C7_RpathsExactlyThree ==
    rpc = "done" => binRpaths = ADDED_RPATHS

(* C8: change_libs_path rewrites every linked-library record whose         *)
(* directory is not under /usr/lib or /System/Library to                   *)
(* '@rpath/<file name>', the file name kept unchanged.                     *)
C8_RewrittenToRpathName ==
    rpc = "done" =>
        \A i \in 1..Len(libs0) :
            ~UnderSystemDir(Dirname(libs0[i])) =>
                binLibs[i] = AT_RPATH \o <<SLASH>> \o Basename(libs0[i])

(* the invocations of one kind in the log of the current call *)
Invoked(kind) == SelectSeq(log, LAMBDA e : e.op = kind)
ArgsOf(entries) == [i \in 1..Len(entries) |-> entries[i].arg]

(* every rewrite, removal and addition of the call has been attempted *)
AllAttempted ==
    /\ ArgsOf(Invoked("change")) =
           SelectSeq(shared, LAMBDA lib : Dirname(lib) \in lib_prefixes)
    /\ Range(ArgsOf(Invoked("delete"))) = Range(rpaths)
    /\ Len(Invoked("delete")) = Cardinality(Range(rpaths))
    /\ ArgsOf(Invoked("add")) = ADDED_RPATHS

(* C9 as claimed: no failing tool invocation of steps 3 to 5 aborts the    *)
(* operation; all rewrites, removals and additions are attempted and no    *)
(* error reaches the caller.                                               *)
C9_NoToolFailureAborts ==
    /\ rpc # "error"
    /\ rpc = "done" => AllAttempted

(* C9 amended: a failing install_name_tool invocation (-change,            *)
(* -delete_rpath, -add_rpath) aborts nothing: the call completes with      *)
(* every rewrite, removal and addition attempted; the only error that      *)
(* reaches the caller is the failed otool -l listing of _remove_rpath,     *)
(* after which no removal and no addition is attempted.                    *)
C9_OnlyListingFailureAborts ==
    /\ rpc = "error" =>
           /\ log # <<>>
           /\ log[Len(log)].op = "list"
           /\ ~log[Len(log)].rc
           /\ Invoked("delete") = <<>>
           /\ Invoked("add") = <<>>
    /\ rpc = "done" => AllAttempted

(* a call that completed although one of its edit invocations failed for   *)
(* an outside reason, with later edits attempted after the failure         *)
C9_Witness ==
    /\ rpc = "done"
    /\ faults = 0
    /\ \E i \in 1..Len(log) :
           /\ log[i].op = "change"
           /\ ~log[i].rc
           /\ \E j \in (i + 1)..Len(log) : log[j].op = "delete"

(* C10: running change_libs_path twice in a row leaves the same run-path   *)
(* records as running it once.                                             *)
C10_SecondRunSameRpaths ==
    Len(rpathsAfter) >= 2 => Range(rpathsAfter[2]) = Range(rpathsAfter[1])

(* C17: change_libs_path issues no rewrite for a linked-library record     *)
(* whose directory lies under /usr/lib or /System/Library: every such      *)
(* record stays as it was, and the records that differ from what the       *)
(* binary held before are all records of other directories.                *)
C17_SystemRecordsUntouched ==
    /\ \A k \in 1..Len(log) :
           log[k].op = "change" => ~UnderSystemDir(Dirname(log[k].arg))
    /\ Len(binLibs) = Len(libs0)
    /\ \A i \in 1..Len(libs0) :
           UnderSystemDir(Dirname(libs0[i])) => binLibs[i] = libs0[i]

(* a completed call on a binary with a system record and a record of       *)
(* another directory, the latter rewritten                                 *)
C17_Witness ==
    /\ rpc = "done"
    /\ \E i, j \in 1..Len(libs0) :
           /\ UnderSystemDir(Dirname(libs0[i]))
           /\ ~UnderSystemDir(Dirname(libs0[j]))
           /\ binLibs[j] # libs0[j]
           /\ \E k \in 1..Len(log) :
                  log[k].op = "change" /\ log[k].arg = libs0[j]

(***************************************************************************)
(* Properties of the dependency tracker.                                   *)
(***************************************************************************)
(* the lister's list_deps has returned its set deps *)
Listed == dpc = "listed"

(* the binary a value names *)
BinaryOf(v) == Resolve(v.s)

(* the direct dependencies the Lister reports for a lib *)
Direct(v) == UNION {Range(r) : r \in answers[v]}

(* the libs reachable from the libs of S through Direct, S included *)
RECURSIVE ReachFrom(_)
ReachFrom(S) ==
    LET more == S \cup UNION {Direct(v) : v \in S}
    IN  IF more = S THEN S ELSE ReachFrom(more)

(* the entry points that exist, as find_deps is given them *)
Roots ==
    {PathOf(Resolve(paths[i].s)) :
        i \in {j \in 1..Len(paths) : Exists(paths[j].s)}}

Reachable == ReachFrom(Roots)

(* the same closure over a relation held as a function *)
RECURSIVE ReachIn(_, _)
ReachIn(rel, S) ==
    LET more == S \cup UNION {rel[v] : v \in S}
    IN  IF more = S THEN S ELSE ReachIn(rel, more)

Acyclic ==
    LET rel == [v \in Reachable |-> Direct(v)]
    IN  \A v \in Reachable : v \notin ReachIn(rel, rel[v])

Count(seq, x) == Cardinality({i \in 1..Len(seq) : seq[i] = x})

(* C1: every path in the result of list_deps exists on disk, whichever the *)
(* Lister; what cannot be resolved to an existing file is dropped.         *)
C1_ResultExists ==
    Listed => \A d \in deps : Exists(d.s)

(* C2: for an acyclic dependency graph, list_deps returns exactly the      *)
(* binaries reachable from the existing entry points through the Lister's  *)
(* direct dependencies, the entry points included.                         *)
C2_ExactlyReachable ==
    (Listed /\ Acyclic) =>
        {BinaryOf(d) : d \in deps} = {BinaryOf(v) : v \in Reachable}

(* a call over an acyclic graph that returned a binary found only through  *)
(* a dependency of a dependency                                            *)
C2_Witness ==
    /\ Listed
    /\ Acyclic
    /\ Len(paths) = 1
    /\ paths[1] = PathOf(InBin(NameA))
    /\ edges = {<<NameA, NameB>>, <<NameB, NameC>>}
    /\ InBin(NameC) \in {BinaryOf(d) : d \in deps}

(* the libs on a dependency cycle among those reachable from the roots *)
OnCycle ==
    LET rel == [v \in Reachable |-> Direct(v)]
    IN  {v \in Reachable : v \in ReachIn(rel, rel[v])}

(* x is reachable from two different entry points of the call *)
FromTwoEntries(x) ==
    \E i, j \in 1..Len(paths) :
        /\ paths[i] # paths[j]
        /\ Exists(paths[i].s)
        /\ Exists(paths[j].s)
        /\ x \in ReachFrom({PathOf(Resolve(paths[i].s))})
        /\ x \in ReachFrom({PathOf(Resolve(paths[j].s))})

(* C3: a binary reachable from two different entry points of a call is     *)
(* exactly once in the traversal order and exactly once in the collection  *)
(* DepsTracker.list_deps returns.                                          *)
C3_ExactlyOnce ==
    dpc \in {"listed", "returned"} =>
        \A x \in Reachable :
            FromTwoEntries(x) =>
                /\ Count(ordered, x) = 1
                /\ dpc = "returned" => result[BinaryOf(x)] = 1

(* the Lister is one that implements list_file_deps *)
Implemented == lister \in {"ObjdumpLister", "OtoolLister"}

(* the steps of a running RecursiveLister.list_deps call *)
RunningCall ==
    SkipMissing \/ EnterEntry \/ FindDeps \/ FindDepsReturn \/ ListerReturn

(* the loop iterations the open find_deps frames still have to make, *)
(* one more for each frame's return                                  *)
RECURSIVE Frames(_)
Frames(stk) ==
    IF stk = <<>> THEN 0
    ELSE Len(stk[1].rest) + 1 + Frames(Tail(stk))

(* more than any frame a lib can open: no list of lib_deps repeats a lib *)
Weight == Cardinality(Libs) + 2

(* what is left of a running call: entry points to take, libs never      *)
(* entered, and the iterations and returns of the open frames            *)
Rank ==
    (Len(paths) + 1 - pi)
        + Weight * Cardinality(Libs \ DOMAIN state)
        + Frames(stack)

(* C4: over a dependency graph with a cycle, list_deps terminates with no  *)
(* error, and what it returns holds every member of the cycle that is      *)
(* reachable from an entry point, with a Lister that implements            *)
(* list_file_deps. Termination, which holds with or without                *)
(* a cycle: a running call can always take a step, every step either       *)
(* returns or lowers Rank, a natural number, and no step raises.           *)
C4_CycleTerminates ==
    /\ []((dpc = "loop" /\ Implemented) => ENABLED RunningCall)
    /\ [][(dpc = "loop" /\ Implemented) =>
              \/ dpc' = "listed"
              \/ dpc' = "loop" /\ Rank' < Rank /\ Rank' >= 0]_vars
    /\ [](dpc = "listed" => OnCycle \subseteq deps)

(* list_deps has returned for the entry point A of a tree in which A and B *)
(* link to each other, and both are in what it returned                    *)
C4_Witness ==
    /\ dpc = "listed"
    /\ {<<NameA, NameB>>, <<NameB, NameA>>} \subseteq edges
    /\ paths = <<PathOf(InBin(NameA))>>
    /\ OnCycle # {}
    /\ {InBin(NameA), InBin(NameB)} \subseteq {BinaryOf(v) : v \in OnCycle}
    /\ {InBin(NameA), InBin(NameB)} \subseteq {BinaryOf(d) : d \in deps}

(* C5: every entry point that exists on disk is a member of the result of  *)
(* DepsTracker.list_deps, on each of the three platforms.                  *)
C5_EntryPointsInResult ==
    dpc \in {"returned", "raised"} =>
        \A i \in 1..Len(paths) :
            Exists(paths[i].s) =>
                /\ dpc = "returned"
                /\ Resolve(paths[i].s) \in DOMAIN result

(* the Lister is never queried for an entry point that does not exist *)
C6_NotQueried ==
    dpc = "listed" =>
        \A i \in 1..Len(paths) :
            ~Exists(paths[i].s) => paths[i] \notin Range(queried)

(* a call gives what the same call without its missing entry points gives *)
C6_SameResult ==
    (/\ Len(history) = 2
     /\ history[2].paths = SelectSeq(history[1].paths, LAMBDA p : Exists(p.s)))
        => /\ history[2].deps = history[1].deps
           /\ history[2].status = history[1].status
           /\ history[2].result = history[1].result

(* C6: an entry point that does not exist on disk is skipped: the call     *)
(* raises no error for it, the Lister is never queried for that path, and  *)
(* the result is that of the same call without that entry point.           *)
C6_MissingEntrySkipped ==
    /\ C6_NotQueried
    /\ C6_SameResult

(* the lib find_deps is given for a value: the entry point resolved *)
LibOf(x) == [t |-> x.t, s |-> Resolve(x.s)]

(* every member of ordered comes after all the direct dependencies of its  *)
(* binary                                                                  *)
DependenciesFirst ==
    \A k \in 1..Len(ordered) :
        \A d \in Direct(LibOf(ordered[k])) :
            \E j \in 1..(k - 1) : ordered[j] = d

(* C11: over an acyclic dependency graph, at every moment of the           *)
(* traversal, each binary in the traversal order comes after all of its    *)
(* direct dependencies.                                                    *)
C11_DependenciesBeforeDependents ==
    dpc \in {"loop", "listed"} => (DependenciesFirst \/ ~Acyclic)

(* a finished traversal of the chain A -> B -> C from A: C, then B, then A *)
C11_Witness ==
    /\ dpc = "listed"
    /\ Acyclic
    /\ {<<NameA, NameB>>, <<NameB, NameC>>} \subseteq edges
    /\ paths = <<PathOf(InBin(NameA))>>
    /\ \E i, j, k \in 1..Len(ordered) :
          /\ i < j
          /\ j < k
          /\ BinaryOf(ordered[i]) = InBin(NameC)
          /\ BinaryOf(ordered[j]) = InBin(NameB)
          /\ BinaryOf(ordered[k]) = InBin(NameA)

(* the system library, referenced outside the prefix, is not in deps *)
C12_SystemLibraryOut ==
    Listed => \A d \in deps : BinaryOf(d) # SYSTEM_LIB

(* the call for A, where A links B and the system library and B links the  *)
(* system library only, returns A and B and nothing else                   *)
C12_PluginAndCore ==
    (/\ dpc \in {"returned", "raised"}
     /\ paths = <<PathOf(InBin(NameA))>>
     /\ edges = {<<NameA, NameB>>}
     /\ style.form = "absolute")
        => /\ dpc = "returned"
           /\ DOMAIN result = {InBin(NameA), InBin(NameB)}

(* C12: a library referenced by a path outside the prefix is never in the  *)
(* result of list_deps unless it was an entry point: for the entry point A *)
(* linking B and the system library, B linking the system library only,    *)
(* the result is exactly {A, B}.                                           *)
C12_OutsidePrefixExcluded ==
    /\ C12_SystemLibraryOut
    /\ C12_PluginAndCore

(* C13: each list_deps call starts from an empty state and an empty        *)
(* traversal order: two calls with the same entry points return the same   *)
(* result, and a later call expands every binary it reaches, whatever an   *)
(* earlier call has processed.                                             *)
C13_FreshStateEachCall ==
    /\ \A i, j \in 1..Len(history) :
           history[i].paths = history[j].paths =>
               /\ history[i].status = history[j].status
               /\ history[i].err = history[j].err
               /\ history[i].deps = history[j].deps
               /\ history[i].result = history[j].result
    /\ Listed => Reachable \subseteq Range(queried)

(* a second call with the entry points of the first has returned, having   *)
(* expanded the dependency the first call had processed                    *)
C13_Witness ==
    /\ Len(history) = 2
    /\ dpc = "returned"
    /\ history[1].paths = history[2].paths
    /\ history[1].status = "returned"
    /\ paths = <<PathOf(InBin(NameA))>>
    /\ <<NameA, NameB>> \in edges
    /\ PathOf(InBin(NameB)) \in Range(queried)
    /\ InBin(NameB) \in DOMAIN result

(* the call has an entry point that exists *)
SomeEntryExists == \E i \in 1..Len(paths) : Exists(paths[i].s)

(* C14: list_deps with an existing entry point on the base RecursiveLister *)
(* fails with an error that reaches the caller: the call never returns a   *)
(* result and the error is not swallowed.                                  *)
C14_NotImplementedPropagates ==
    /\ []((lister = "RecursiveLister" /\ dpc \in {"listed", "returned"})
             => ~SomeEntryExists)
    /\ []((lister = "RecursiveLister" /\ dpc = "loop") =>
             ENABLED (SkipMissing \/ EnterEntryNotImplemented \/ ListerReturn))
    /\ [][(/\ lister = "RecursiveLister"
           /\ dpc = "loop"
           /\ pi <= Len(paths)
           /\ Exists(paths[pi].s))
              => /\ dpc' = "raised"
                 /\ err' = "TypeError"
                 /\ Len(history') = Len(history) + 1
                 /\ history'[Len(history')].status = "raised"]_vars

(* the call for a missing and an existing entry point on the base Lister   *)
(* has raised, after list_file_deps was called for the existing one        *)
C14_Witness ==
    /\ lister = "RecursiveLister"
    /\ dpc = "raised"
    /\ err = "TypeError"
    /\ paths = <<PathOf(InBin(NameM)), PathOf(InBin(NameA))>>
    /\ queried = <<PathOf(InBin(NameA))>>

(* the calls of list_file_deps, in the running call, for the binary of x *)
QueriesOf(x) == {i \in 1..Len(queried) : BinaryOf(queried[i]) = BinaryOf(x)}

(* C15: within one list_deps call list_file_deps is called at most once    *)
(* for a binary, whether it is reached from several entry points, through  *)
(* several dependency paths, or as an entry point and as a dependency.     *)
C15_QueriedAtMostOnce ==
    \A i \in 1..Len(queried) : Cardinality(QueriesOf(queried[i])) <= 1

(* the keys of the state dictionary that name the binary of v *)
KeysOf(v, st) == {k \in DOMAIN st : BinaryOf(k) = BinaryOf(v)}

(* a step of a running call moves no key of state backwards: a key stays,  *)
(* a processed key stays processed, and a new key is in-progress           *)
KeysForward ==
    /\ DOMAIN state \subseteq DOMAIN state'
    /\ \A k \in DOMAIN state : state[k] = "processed" => state'[k] = "processed"
    /\ \A k \in DOMAIN state' \ DOMAIN state : state'[k] = "in-progress"

(* a step of a running call puts in progress only a binary that was        *)
(* unvisited                                                               *)
BinariesForward ==
    \A k \in DOMAIN state' \ DOMAIN state : KeysOf(k, state) = {}

(* the members of ordered name binaries that are processed *)
OrderedProcessed ==
    \A i \in 1..Len(ordered) :
        /\ KeysOf(ordered[i], state) # {}
        /\ \A k \in KeysOf(ordered[i], state) : state[k] = "processed"

(* the members of ordered are, or resolve to, keys that are processed *)
OrderedKeysProcessed ==
    \A i \in 1..Len(ordered) : StateOf(LibOf(ordered[i])) = "processed"

NoneInProgress == \A k \in DOMAIN state : state[k] # "in-progress"

(* C18: during a list_deps call the state of a binary only moves from      *)
(* unvisited to in-progress to processed; a binary in the traversal order  *)
(* is processed; and no binary is in-progress when list_deps has returned. *)
C18_StateOnlyForward ==
    /\ [][dpc = "loop" => (KeysForward /\ BinariesForward)]_vars
    /\ [](dpc \in {"loop", "listed", "returned"} => OrderedProcessed)
    /\ [](dpc \in {"listed", "returned"} => NoneInProgress)

(* the same for the keys of the state dictionary, a str and a Path of one  *)
(* binary being two keys                                                   *)
C18_KeysOnlyForward ==
    /\ [][dpc = "loop" => KeysForward]_vars
    /\ [](dpc \in {"loop", "listed", "returned"} => OrderedKeysProcessed)
    /\ [](dpc \in {"listed", "returned"} => NoneInProgress)

(***************************************************************************)
(* Properties of OtoolLister._replace_rpath.                               *)
(***************************************************************************)
(* the reference of r with @rpath replaced by the i-th directory tried *)
Substituted(r, i) == Replace(r.path, AT_RPATH, r.rpaths[i])

(* the directories of r.rpaths whose substitution names an existing file *)
Hits(r) == {i \in 1..Len(r.rpaths) : Exists(Substituted(r, i))}

(* the run-path directories of a lib in the order of its LC_RPATH records *)
RecordOrder(lib) ==
    LET recs == IF Exists(lib) THEN style.lc_rpath ELSE <<>>
    IN  [i \in 1..Len(recs) |->
            IF Len(recs[i]) = 1 THEN Replace(recs[i], DOT, PREFIX)
            ELSE Replace(Replace(recs[i], LOADER_PATH, Dirname(lib)),
                         EXECUTABLE_PATH, Dirname(lib))]

(* the path returned is the first substitution, in the order tried, that   *)
(* names an existing file, and the literal reference when there is none    *)
C16_FirstExisting ==
    \A k \in 1..Len(replaced) :
        LET r == replaced[k]
        IN  IF Hits(r) = {}
            THEN r.resolved = PathOf(Resolve(r.path))
            ELSE \E i \in Hits(r) :
                    /\ \A j \in Hits(r) : i <= j
                    /\ r.resolved = PathOf(Resolve(Substituted(r, i)))

(* two runs for the same lib and reference return the same path *)
C16_SameResolvedPath ==
    Len(replaced) = 2 => replaced[1].resolved = replaced[2].resolved

(* the directories are tried in the order of the LC_RPATH records *)
C16_TriedInRecordOrder ==
    \A k \in 1..Len(replaced) :
        replaced[k].rpaths = Dedup(RecordOrder(replaced[k].lib))

(* C16: an @rpath reference resolves to the first substitution of a        *)
(* run-path directory that names an existing file, to the literal          *)
(* reference when there is none, and the directory chosen among several    *)
(* that hold the file is fixed by the LC_RPATH records, so that two runs   *)
(* return the same path.                                                   *)
C16_RpathResolution ==
    /\ C16_FirstExisting
    /\ C16_SameResolvedPath

(***************************************************************************)
(* Properties of Version.                                                  *)
(***************************************************************************)
(* C19: for a Version v of non-negative major, minor, patch and build,     *)
(* Version.parse(str(v)) equals v: the four components __str__ prints are  *)
(* the ones parse returns.                                                 *)
C19_ParseStrRoundTrip ==
    parsed # <<>> =>
        /\ parsed[1].raised = "none"
        /\ VersionEq(parsed[1].value, version)

(* the round trip for the Versions whose patch is 0 *)
C19_RoundTripWithoutPatch ==
    (parsed # <<>> /\ version.patch = 0) =>
        /\ parsed[1].raised = "none"
        /\ VersionEq(parsed[1].value, version)

====
